---- MODULE Spec2Model ----
(***************************************************************************)
(* BigN: the fixed-point decimal type N of ackvf/BigN (bign.ts, the        *)
(* revision with the rounding subsystem) as a state machine.               *)
(*                                                                         *)
(* The state is a JavaScript heap of N instances (heap), the caller's      *)
(* variables that reference them (env), the three static settings of the   *)
(* class, and a record of the last call (last).  Every method is an        *)
(* operator that threads the heap through the calls it makes, so a clone   *)
(* is a new heap cell and an in-place write by rebase is a write to one    *)
(* cell; every action is one call of one public method.                    *)
(*                                                                         *)
(* bigint is unbounded in the library; the model keeps every intermediate  *)
(* below 2^31 through its bounds.  DEFAULT_PRECISION is 80 in the library, *)
(* 10^80 is outside that range, so the model scales the setting into       *)
(* 0..MaxPrec.                                                             *)
(***************************************************************************)
EXTENDS Integers, Sequences, FiniteSets

\* ------------------------------------------------------------------ bounds

\* Magnitudes handed to the constructor range over -MaxMag..MaxMag.
MaxMag == 2
\* The decimals argument ranges over -1..MaxDec.
MaxDec == 1
\* The precision argument and DEFAULT_PRECISION range over 0..MaxPrec.
MaxPrec == 2
\* An arithmetic result is kept in a caller's variable when |value| <= MaxValue.
MaxValue == MaxMag

VARIABLES
  heap,                      \* Seq of instances: the live objects
  env,                       \* Slots -> index into heap, 0 = unassigned
  DEFAULT_PRECISION,         \* static N.DEFAULT_PRECISION
  ROUNDING_MODE,             \* static N.ROUNDING_MODE
  ROUNDING_CUSTOM_FUNCTION,  \* static N.ROUNDING_CUSTOM_FUNCTION, by name
  last                       \* the last call: operation, inputs, outcome

vars == <<heap, env, DEFAULT_PRECISION, ROUNDING_MODE, ROUNDING_CUSTOM_FUNCTION, last>>

\* The caller's variables.
Slots == {"x", "y"}
SlotSeq == <<"x", "y">>

\* ------------------------------------------------------- bigint arithmetic

Abs(n) == IF n < 0 THEN -n ELSE n

Sign(n) == IF n < 0 THEN -1 ELSE IF n > 0 THEN 1 ELSE 0

Max(a, b) == IF a < b THEN b ELSE a

RECURSIVE Pow10(_)
\* 10n ** BigInt(n), n >= 0
Pow10(n) == IF n <= 0 THEN 1 ELSE 10 * Pow10(n - 1)

\* bigint `/`: the quotient truncated toward zero (b # 0)
TruncDiv(a, b) == Sign(a) * Sign(b) * (Abs(a) \div Abs(b))

\* bigint `%`: the remainder with the sign of the dividend (b # 0)
TruncRem(a, b) == a - b * TruncDiv(a, b)

\* ------------------------------------------------------------------ values

Null == [null |-> TRUE]

\* NLike arguments and results, tagged by their JavaScript type.
RefV(i) == [tag |-> "N", ref |-> i]
NumberV(n) == [tag |-> "number", val |-> n]
BigIntV(n) == [tag |-> "bigint", val |-> n]
StringV(s) == [tag |-> "string", val |-> s]
BoolV(b) == [tag |-> "boolean", val |-> b]
Throw(e) == [tag |-> "throw", err |-> e]

\* An optional argument: <<>> when omitted (undefined), <<v>> when given.
Omitted == <<>>
Given(v) == <<v>>
OrDefault(opt, default) == IF opt = <<>> THEN default ELSE opt[1]

\* The outcome of a call: the heap after it and what it returned or threw.
Outcome(st, ret) == [st |-> st, ret |-> ret]

\* `const x = e; Body(x)`: e is evaluated once, then Body on its value.
Bind(e, Body(_)) == CHOOSE y \in {Body(x) : x \in {e}} : TRUE

\* ----------------------------------------------------------------- strings

\* Strings are sequences of one-character strings.

DigitChars == {"0", "1", "2", "3", "4", "5", "6", "7", "8", "9"}

DigitVal(c) ==
  CASE c = "0" -> 0 [] c = "1" -> 1 [] c = "2" -> 2 [] c = "3" -> 3 [] c = "4" -> 4
    [] c = "5" -> 5 [] c = "6" -> 6 [] c = "7" -> 7 [] c = "8" -> 8 [] c = "9" -> 9

DigitChar(d) ==
  CASE d = 0 -> "0" [] d = 1 -> "1" [] d = 2 -> "2" [] d = 3 -> "3" [] d = 4 -> "4"
    [] d = 5 -> "5" [] d = 6 -> "6" [] d = 7 -> "7" [] d = 8 -> "8" [] d = 9 -> "9"

\* String.prototype.includes(c)
Includes(s, c) == \E i \in 1..Len(s) : s[i] = c

\* String.prototype.indexOf(c): 0-based, -1 when absent
IndexOf(s, c) ==
  IF Includes(s, c) THEN (CHOOSE i \in 1..Len(s) : s[i] = c /\ \A j \in 1..(i - 1) : s[j] # c) - 1
  ELSE -1

\* s.split(c).join('')
SplitJoin(s, c) == SelectSeq(s, LAMBDA ch : ch # c)

RECURSIVE DigitsValue(_)
DigitsValue(s) ==
  IF s = <<>> THEN 0 ELSE 10 * DigitsValue(SubSeq(s, 1, Len(s) - 1)) + DigitVal(s[Len(s)])

AllDigits(s) == \A i \in 1..Len(s) : s[i] \in DigitChars

\* BigInt(string): StringToBigInt.  The empty string is 0n; otherwise an optional
\* '-' and at least one decimal digit; anything else is a SyntaxError.
StringToBigInt(s) ==
  IF s = <<>> THEN BigIntV(0)
  ELSE IF s[1] = "-"
    THEN IF Len(s) > 1 /\ AllDigits(Tail(s)) THEN BigIntV(-DigitsValue(Tail(s)))
         ELSE Throw("SyntaxError")
    ELSE IF AllDigits(s) THEN BigIntV(DigitsValue(s)) ELSE Throw("SyntaxError")

\* BigInt(value) for a number (an integer here), a bigint or a string
ToBigInt(v) == IF v.tag = "string" THEN StringToBigInt(v.val) ELSE BigIntV(v.val)

RECURSIVE NatToString(_)
NatToString(n) ==
  IF n < 10 THEN <<DigitChar(n)>> ELSE Append(NatToString(n \div 10), DigitChar(n % 10))

\* BigInt.prototype.toString()
BigIntToString(n) == IF n < 0 THEN <<"-">> \o NatToString(-n) ELSE NatToString(n)

RECURSIVE Repeat(_, _)
Repeat(c, n) == IF n <= 0 THEN <<>> ELSE <<c>> \o Repeat(c, n - 1)

\* String.prototype.padStart(n, c) and padEnd(n, c)
PadStart(s, n, c) == Repeat(c, n - Len(s)) \o s
PadEnd(s, n, c) == s \o Repeat(c, n - Len(s))

\* String.prototype.slice(from, to) with JavaScript's index rules
SliceIndex(s, i) == IF i < 0 THEN Max(Len(s) + i, 0) ELSE IF i > Len(s) THEN Len(s) ELSE i
Slice(s, from, to) == SubSeq(s, SliceIndex(s, from) + 1, SliceIndex(s, to))
SliceFrom(s, from) == SubSeq(s, SliceIndex(s, from) + 1, Len(s))

\* ------------------------------------------------------------- constructor

\* copyConstruct returning the object it was given instead of a copy of it.
copyConstructAlias(st, ref) == Outcome(st, RefV(ref))

\* Object.assign(this, value): a new object with the own properties of `value`.
copyConstruct(st, ref) == Outcome(Append(st, st[ref]), RefV(Len(st) + 1))

\* pointDecimals counting the point itself as a digit.
pointDecimalsOffByOne(s) == Len(s) - IndexOf(s, ".")

\* decimals of a string with a point: value.length - 1 - value.indexOf('.')
pointDecimals(s) == Len(s) - 1 - IndexOf(s, ".")

\* precision ||= decimals, on the decimal-string path only
orDecimals(precision, decimals) == IF precision = 0 THEN decimals ELSE precision

\* raisePrecision keeping the requested precision.
raisePrecisionNever(precision, decimals) == precision

\* precision < decimals ? decimals : precision
raisePrecision(precision, decimals) == IF precision < decimals THEN decimals ELSE precision

\* scaleValue without the division by decimalsFactor.
scaleValueNoDivide(big, factor, decimalsFactor) == big * factor

\* BigInt(value) * this.factor / this.decimalsFactor
scaleValue(big, factor, decimalsFactor) == TruncDiv(big * factor, decimalsFactor)

\* negativeExponent checking the precision only.
negativeExponentOfFactor(decimals, precision) == precision < 0

\* 10n ** BigInt(decimals) and 10n ** BigInt(precision) throw a RangeError for
\* a negative exponent.
negativeExponent(decimals, precision) == decimals < 0 \/ precision < 0

\* new N(value, decimals, precision, options).  console.assert only logs; the
\* error for a negative decimals (or precision) is the RangeError of 10n ** BigInt(-1).
constructor(st, valueArg, decimalsArg, precisionArg, isPrecise) ==
  LET value0 == OrDefault(valueArg, NumberV(0))
      decimals0 == OrDefault(decimalsArg, 0)
      precision0 == OrDefault(precisionArg, DEFAULT_PRECISION)
  IN
  IF value0.tag = "N" THEN copyConstruct(st, value0.ref)
  ELSE
    LET hasPoint == value0.tag = "string" /\ Includes(value0.val, ".")
        decimals == IF hasPoint THEN pointDecimals(value0.val) ELSE decimals0
        value == IF hasPoint THEN StringV(SplitJoin(value0.val, ".")) ELSE value0
        precision1 == IF hasPoint THEN orDecimals(precision0, decimals) ELSE precision0
        precision == raisePrecision(precision1, decimals)
        big == ToBigInt(value)
    IN
    IF negativeExponent(decimals, precision) THEN Outcome(st, Throw("RangeError"))
    ELSE IF big.tag = "throw" THEN Outcome(st, big)
    ELSE
      LET made == [decimals |-> decimals,
                   decimalsFactor |-> Pow10(decimals),
                   precision |-> precision,
                   factor |-> Pow10(precision),
                   value |-> IF isPrecise THEN big.val
                             ELSE scaleValue(big.val, Pow10(precision), Pow10(decimals))]
      IN Outcome(Append(st, made), RefV(Len(st) + 1))

clone(st, this) == constructor(st, Given(RefV(this)), Omitted, Omitted, FALSE)

\* ----------------------------------------------------------------- helpers

\* nfy handing an instance on as it is, without the clone.
nfyNoClone(st, this, instance) ==
  IF instance.tag # "N"
  THEN constructor(st, Given(instance), Given(0), Given(st[this].precision), FALSE)
  ELSE Outcome(st, instance)

\* nfy building a plain operand at the default precision.
nfyAtDefaultPrecision(st, this, instance) ==
  IF instance.tag # "N"
  THEN constructor(st, Given(instance), Given(0), Omitted, FALSE)
  ELSE clone(st, instance.ref)

\* nfy: a clone of an instance, or new N(instance, 0, this.precision)
nfy(st, this, instance) ==
  IF instance.tag # "N"
  THEN constructor(st, Given(instance), Given(0), Given(st[this].precision), FALSE)
  ELSE clone(st, instance.ref)

\* rebase raising the precision and factor of `this` without scaling its value.
rebaseKeepValue(st, this, instance) ==
  Bind(nfy(st, this, instance), LAMBDA n :
    IF n.ret.tag = "throw" THEN n
    ELSE
      LET i == n.ret.ref
          inst == n.st[i]
          me == n.st[this]
      IN
      IF inst.precision < me.precision
      THEN Outcome([n.st EXCEPT ![i] = [inst EXCEPT
                      !.value = inst.value * Pow10(me.precision - inst.precision),
                      !.precision = me.precision,
                      !.factor = me.factor]], n.ret)
      ELSE IF inst.precision > me.precision
      THEN Outcome([n.st EXCEPT ![this] = [me EXCEPT
                      !.precision = inst.precision,
                      !.factor = inst.factor]], n.ret)
      ELSE n)

\* rebase bringing the copy of `instance` to the precision of `this` whichever
\* is higher, `this` staying as it is.
rebaseToReceiver(st, this, instance) ==
  Bind(nfy(st, this, instance), LAMBDA n :
    IF n.ret.tag = "throw" THEN n
    ELSE
      LET i == n.ret.ref
          inst == n.st[i]
          me == n.st[this]
      IN
      IF inst.precision < me.precision
      THEN Outcome([n.st EXCEPT ![i] = [inst EXCEPT
                      !.value = inst.value * Pow10(me.precision - inst.precision),
                      !.precision = me.precision,
                      !.factor = me.factor]], n.ret)
      ELSE IF inst.precision > me.precision
      THEN Outcome([n.st EXCEPT ![i] = [inst EXCEPT
                      !.value = TruncDiv(inst.value, Pow10(inst.precision - me.precision)),
                      !.precision = me.precision,
                      !.factor = me.factor]], n.ret)
      ELSE n)

\* rebase: the lower-precision one of `this` and the copy of `instance` is
\* rewritten in place at the higher precision; returns the copy.
rebase(st, this, instance) ==
  Bind(nfy(st, this, instance), LAMBDA n :
    IF n.ret.tag = "throw" THEN n
    ELSE
      LET i == n.ret.ref
          inst == n.st[i]
          me == n.st[this]
      IN
      IF inst.precision < me.precision
      THEN Outcome([n.st EXCEPT ![i] = [inst EXCEPT
                      !.value = inst.value * Pow10(me.precision - inst.precision),
                      !.precision = me.precision,
                      !.factor = me.factor]], n.ret)
      ELSE IF inst.precision > me.precision
      THEN Outcome([n.st EXCEPT ![this] = [me EXCEPT
                      !.value = me.value * Pow10(inst.precision - me.precision),
                      !.precision = inst.precision,
                      !.factor = inst.factor]], n.ret)
      ELSE n)

\* ----------------------------------------------------------------- rounding

RoundingModes == {"DOWN", "UP", "TOWARD_ZERO", "HALF_AWAY_FROM_ZERO", "CUSTOM"}

\* The functions the model can install as N.ROUNDING_CUSTOM_FUNCTION: the
\* default () => 0n, two constant carries, one that reads the remainder of its
\* arguments and one that reads the whole of its first argument.
CustomFunctions == {"zero", "one", "minusOne", "awayIfInexact", "awayIfWhole"}

ApplyCustom(f, value, factor) ==
  CASE f = "zero" -> 0
    [] f = "one" -> 1
    [] f = "minusOne" -> -1
    [] f = "awayIfInexact" -> IF TruncRem(value, factor) = 0 THEN 0 ELSE Sign(value)
    [] f = "awayIfWhole" -> IF Abs(value) >= factor THEN Sign(value) ELSE 0

\* TOWARD_ZERO rounding to the floor.
TOWARD_ZERO_Floor(value, factor) ==
  IF TruncRem(value, factor) # 0 /\ value < 0 THEN -1 ELSE 0

\* HALF_AWAY_FROM_ZERO with an exact half going toward zero.
HALF_TOWARD_ZERO(value, factor) ==
  LET sign == IF value < 0 THEN -1 ELSE 1 IN
  IF TruncRem(sign * value, factor) * 2 > factor THEN sign ELSE 0

\* HALF_AWAY_FROM_ZERO with an exact half going up.
HALF_UP(value, factor) ==
  LET sign == IF value < 0 THEN -1 ELSE 1 IN
  IF TruncRem(sign * value, factor) * 2 >= factor + (IF sign < 0 THEN 1 ELSE 0) THEN sign ELSE 0

\* CUSTOM handing the dropped remainder to the function.
CUSTOM_OfRemainder(value, factor) ==
  ApplyCustom(ROUNDING_CUSTOM_FUNCTION, TruncRem(value, factor), factor)

\* rounder with the mode fixed to the default one.
rounderOfDefaultMode(value, factor) ==
  LET sign == IF value < 0 THEN -1 ELSE 1 IN
  IF TruncRem(sign * value, factor) * 2 >= factor THEN sign ELSE 0

\* DOWN carrying for every inexact value.
DOWN_OfEitherSign(value, factor) ==
  LET sign == IF value < 0 THEN -1 ELSE 1 IN
  IF TruncRem(sign * value, factor) = 0 THEN 0 ELSE -1

DOWN(value, factor) ==
  LET sign == IF value < 0 THEN -1 ELSE 1 IN
  IF TruncRem(sign * value, factor) = 0 THEN 0 ELSE IF sign < 0 THEN -1 ELSE 0

UP(value, factor) ==
  LET sign == IF value < 0 THEN -1 ELSE 1 IN
  IF TruncRem(sign * value, factor) = 0 THEN 0 ELSE IF sign < 0 THEN 0 ELSE 1

TOWARD_ZERO(value, factor) == 0

HALF_AWAY_FROM_ZERO(value, factor) ==
  LET sign == IF value < 0 THEN -1 ELSE 1 IN
  IF TruncRem(sign * value, factor) * 2 >= factor THEN sign ELSE 0

CUSTOM(value, factor) == ApplyCustom(ROUNDING_CUSTOM_FUNCTION, value, factor)

\* N.rounders[N.ROUNDING_MODE](value, factor)
rounder(value, factor) ==
  CASE ROUNDING_MODE = "DOWN" -> DOWN(value, factor)
    [] ROUNDING_MODE = "UP" -> UP(value, factor)
    [] ROUNDING_MODE = "TOWARD_ZERO" -> TOWARD_ZERO(value, factor)
    [] ROUNDING_MODE = "HALF_AWAY_FROM_ZERO" -> HALF_AWAY_FROM_ZERO(value, factor)
    [] ROUNDING_MODE = "CUSTOM" -> CUSTOM(value, factor)

\* -------------------------------------------------------------- conversions

\* this.value / this.factor + this.rounder()
valueOf(st, this) ==
  Outcome(st, BigIntV(TruncDiv(st[this].value, st[this].factor)
                      + rounder(st[this].value, st[this].factor)))

toPrecise(st, this) == Outcome(st, BigIntV(st[this].value))

\* toDecimal calling the rounder when the digits asked for equal the precision.
toDecimalRoundingInPlace(me, precision) ==
  IF precision <= me.precision
  THEN LET newDecimalsFactor == Pow10(me.precision - precision)
       IN TruncDiv(me.value, newDecimalsFactor) + rounder(me.value, newDecimalsFactor)
  ELSE me.value * Pow10(precision - me.precision)

toDecimalValue(me, precision) ==
  IF precision < me.precision
  THEN LET newDecimalsFactor == Pow10(me.precision - precision)
       IN TruncDiv(me.value, newDecimalsFactor) + rounder(me.value, newDecimalsFactor)
  ELSE me.value * Pow10(precision - me.precision)

toDecimal(st, this, precisionArg) ==
  Outcome(st, BigIntV(toDecimalValue(st[this], OrDefault(precisionArg, st[this].decimals))))

toStringValue(me, precision) ==
  LET decimal == PadStart(BigIntToString(toDecimalValue(me, precision)), precision, "0")
  IN IF precision > 0
     THEN Slice(decimal, 0, -precision) \o <<".">> \o SliceFrom(decimal, -precision)
     ELSE decimal \o PadEnd(<<>>, -precision, "0")

toString(st, this, precisionArg) ==
  Outcome(st, StringV(toStringValue(st[this], OrDefault(precisionArg, st[this].decimals))))

\* --------------------------------------------------------------- arithmetic

\* Augend.value = augend + addend
plusValue(augend, addend) == augend + addend

\* Minuend.value = minuend - subtrahend
minusValue(minuend, subtrahend) == minuend - subtrahend

\* mulValue carrying the quotient as the active rounding mode says.
mulValueRounded(multiplier, multiplicand, thisFactor) ==
  TruncDiv(multiplier * multiplicand, thisFactor) + rounder(multiplier * multiplicand, thisFactor)

\* Multiplier.value = multiplier * multiplicand / this.factor
mulValue(multiplier, multiplicand, thisFactor) == TruncDiv(multiplier * multiplicand, thisFactor)

\* Dividend.value = this.factor * dividend / divisor
divValue(thisFactor, dividend, divisor) == TruncDiv(thisFactor * dividend, divisor)

\* The shape the four binary operators share: clone the receiver, rebase the
\* clone against the operand, write the combined value into the clone, return it.
\* `this` itself is read again only for this.factor (mul, div).
plus(st, this, Addend) ==
  Bind(clone(st, this), LAMBDA Augend :
  Bind(rebase(Augend.st, Augend.ret.ref, Addend), LAMBDA r :
    IF r.ret.tag = "throw" THEN r
    ELSE Outcome([r.st EXCEPT ![Augend.ret.ref].value =
                    plusValue(r.st[Augend.ret.ref].value, r.st[r.ret.ref].value)],
                 Augend.ret)))

minus(st, this, Subtrahend) ==
  Bind(clone(st, this), LAMBDA Minuend :
  Bind(rebase(Minuend.st, Minuend.ret.ref, Subtrahend), LAMBDA r :
    IF r.ret.tag = "throw" THEN r
    ELSE Outcome([r.st EXCEPT ![Minuend.ret.ref].value =
                    minusValue(r.st[Minuend.ret.ref].value, r.st[r.ret.ref].value)],
                 Minuend.ret)))

mul(st, this, Factor) ==
  Bind(clone(st, this), LAMBDA Multiplier :
  Bind(rebase(Multiplier.st, Multiplier.ret.ref, Factor), LAMBDA r :
    IF r.ret.tag = "throw" THEN r
    ELSE Outcome([r.st EXCEPT ![Multiplier.ret.ref].value =
                    mulValue(r.st[Multiplier.ret.ref].value, r.st[r.ret.ref].value,
                             r.st[this].factor)],
                 Multiplier.ret)))

multipliedBy(st, this, Factor) == mul(st, this, Factor)

\* bigint division by 0n throws a RangeError
\* div answering a zero divisor with the unchanged clone of the receiver.
divIgnoringZeroDivisor(st, this, Divisor) ==
  Bind(clone(st, this), LAMBDA Dividend :
  Bind(rebase(Dividend.st, Dividend.ret.ref, Divisor), LAMBDA r :
    IF r.ret.tag = "throw" THEN r
    ELSE IF r.st[r.ret.ref].value = 0 THEN Outcome(r.st, Dividend.ret)
    ELSE Outcome([r.st EXCEPT ![Dividend.ret.ref].value =
                    divValue(r.st[this].factor, r.st[Dividend.ret.ref].value,
                             r.st[r.ret.ref].value)],
                 Dividend.ret)))

div(st, this, Divisor) ==
  Bind(clone(st, this), LAMBDA Dividend :
  Bind(rebase(Dividend.st, Dividend.ret.ref, Divisor), LAMBDA r :
    IF r.ret.tag = "throw" THEN r
    ELSE IF r.st[r.ret.ref].value = 0 THEN Outcome(r.st, Throw("RangeError"))
    ELSE Outcome([r.st EXCEPT ![Dividend.ret.ref].value =
                    divValue(r.st[this].factor, r.st[Dividend.ret.ref].value,
                             r.st[r.ret.ref].value)],
                 Dividend.ret)))

sq(st, this) == mul(st, this, RefV(this))

RECURSIVE newton(_, _, _)
\* while (z < y) { y = z; z = (x / z + z) / 2n }
newton(x, z, y) ==
  IF z < y THEN Bind((TruncDiv(x, z) + z) \div 2, LAMBDA next : newton(x, next, z)) ELSE y

\* sqrt without the check of the radicand's sign.
sqrtOfAnySign(st, this) ==
  Bind(clone(st, this), LAMBDA Radicand :
    LET x == Radicand.st[Radicand.ret.ref].value * Radicand.st[Radicand.ret.ref].factor
    IN IF x < 2 THEN Radicand
       ELSE Outcome([Radicand.st EXCEPT ![Radicand.ret.ref].value = newton(x, x \div 2 + 1, x)],
                    Radicand.ret))

\* sqrt returning the clone when the stored value, not value * factor, is below 2.
sqrtByStoredValue(st, this) ==
  Bind(clone(st, this), LAMBDA Radicand :
    LET x == Radicand.st[Radicand.ret.ref].value * Radicand.st[Radicand.ret.ref].factor
    IN IF x < 0
       THEN Outcome(Radicand.st, Throw("square root of negative numbers is not supported"))
       ELSE IF Radicand.st[Radicand.ret.ref].value < 2 THEN Radicand
       ELSE Outcome([Radicand.st EXCEPT ![Radicand.ret.ref].value = newton(x, x \div 2 + 1, x)],
                    Radicand.ret))

sqrt(st, this) ==
  Bind(clone(st, this), LAMBDA Radicand :
    LET x == Radicand.st[Radicand.ret.ref].value * Radicand.st[Radicand.ret.ref].factor
    IN IF x < 0
       THEN Outcome(Radicand.st, Throw("square root of negative numbers is not supported"))
       ELSE IF x < 2 THEN Radicand
       ELSE Outcome([Radicand.st EXCEPT ![Radicand.ret.ref].value = newton(x, x \div 2 + 1, x)],
                    Radicand.ret))

\* -------------------------------------------------------------- comparisons

\* compare handing on the two values rounded to integers under the active mode.
compareRounded(st, this, Comparand) ==
  Bind(clone(st, this), LAMBDA Compared :
  Bind(rebase(Compared.st, Compared.ret.ref, Comparand), LAMBDA r :
    IF r.ret.tag = "throw" THEN r
    ELSE [st |-> r.st, ret |-> r.ret,
          compared |-> valueOf(r.st, Compared.ret.ref).ret.val,
          comparand |-> valueOf(r.st, r.ret.ref).ret.val]))

\* The shape the five comparisons share: clone the receiver, rebase the clone
\* against the comparand; `compared` and `comparand` are the two values.
compare(st, this, Comparand) ==
  Bind(clone(st, this), LAMBDA Compared :
  Bind(rebase(Compared.st, Compared.ret.ref, Comparand), LAMBDA r :
    IF r.ret.tag = "throw" THEN r
    ELSE [st |-> r.st, ret |-> r.ret,
          compared |-> r.st[Compared.ret.ref].value, comparand |-> r.st[r.ret.ref].value]))

eq(st, this, Comparand) ==
  Bind(compare(st, this, Comparand), LAMBDA r :
    IF r.ret.tag = "throw" THEN r ELSE Outcome(r.st, BoolV(r.compared = r.comparand)))

lt(st, this, Comparand) ==
  Bind(compare(st, this, Comparand), LAMBDA r :
    IF r.ret.tag = "throw" THEN r ELSE Outcome(r.st, BoolV(r.compared < r.comparand)))

lte(st, this, Comparand) ==
  Bind(compare(st, this, Comparand), LAMBDA r :
    IF r.ret.tag = "throw" THEN r ELSE Outcome(r.st, BoolV(r.compared <= r.comparand)))

gt(st, this, Comparand) ==
  Bind(compare(st, this, Comparand), LAMBDA r :
    IF r.ret.tag = "throw" THEN r ELSE Outcome(r.st, BoolV(r.compared > r.comparand)))

gte(st, this, Comparand) ==
  Bind(compare(st, this, Comparand), LAMBDA r :
    IF r.ret.tag = "throw" THEN r ELSE Outcome(r.st, BoolV(r.compared >= r.comparand)))

\* ------------------------------------------------------------ state machine

\* What each of the caller's variables holds in heap st.
Snapshot(st, e) == [s \in Slots |-> IF e[s] = 0 THEN Null ELSE st[e[s]]]

\* Garbage collection, one variable at a time: acc = [st, env, ids] is the new
\* heap, the new references and, for each new object, its old index.
CollectSlot(st, e, s, acc) ==
  IF e[s] = 0 THEN acc
  ELSE IF \E j \in 1..Len(acc.ids) : acc.ids[j] = e[s]
  THEN [acc EXCEPT !.env[s] = CHOOSE j \in 1..Len(acc.ids) : acc.ids[j] = e[s]]
  ELSE [st |-> Append(acc.st, st[e[s]]),
        env |-> [acc.env EXCEPT ![s] = Len(acc.st) + 1],
        ids |-> Append(acc.ids, e[s])]

RECURSIVE Collect(_, _, _, _)
\* The objects no variable references are dropped and the rest renumbered in
\* the order of SlotSeq; two variables that reference one object still do.
Collect(st, e, k, acc) ==
  IF k > Len(SlotSeq) THEN acc
  ELSE Bind(CollectSlot(st, e, SlotSeq[k], acc), LAMBDA next : Collect(st, e, k + 1, next))

Collected(st, e) == Collect(st, e, 1, [st |-> <<>>, env |-> [s \in Slots |-> 0], ids |-> <<>>])

\* What the call returned, as the caller sees it: an instance with its
\* properties and whether it is an object that did not exist before the call.
Returned(r) ==
  IF r.ret.tag = "N"
  THEN [tag |-> "N", obj |-> r.st[r.ret.ref], fresh |-> r.ret.ref > Len(heap)]
  ELSE r.ret

Statics == <<DEFAULT_PRECISION, ROUNDING_MODE, ROUNDING_CUSTOM_FUNCTION>>

\* An argument as the caller writes it: a variable, or a plain value.
VarArg(s) == [tag |-> "var", slot |-> s]
ArgValue(a) == IF a.tag = "var" THEN RefV(env[a.slot]) ELSE a

\* No call is on record.
NoCall == [op |-> "-", recv |-> "-", args |-> <<>>, dst |-> "-",
           pre |-> [s \in Slots |-> Null], post |-> [s \in Slots |-> Null],
           ret |-> [tag |-> "undefined"]]

\* A returned instance is assigned when the caller keeps results at all
\* (`assign`) and, for an arithmetic result (`bounded`), within the value bound.
Kept(r, assign, bounded) ==
  /\ assign
  /\ r.ret.tag = "N"
  /\ bounded => Abs(r.st[r.ret.ref].value) <= MaxValue

\* The statement `dst = <call>` with outcome `outcome`: the caller's variable
\* dst takes a returned instance it keeps, the garbage is collected, and the
\* call is recorded with the variables' objects before the call (pre) and after
\* it, before the assignment (post).
Finish(op, recv, args, dst, outcome, assign, bounded) ==
  /\ last = NoCall
  /\ \E r \in {outcome} :
     \E c \in {Collected(r.st, IF Kept(r, assign, bounded)
                               THEN [env EXCEPT ![dst] = r.ret.ref] ELSE env)} :
       /\ heap' = c.st
       /\ env' = c.env
       /\ last' = [op |-> op, recv |-> recv, args |-> args,
                   dst |-> IF Kept(r, assign, bounded) THEN dst ELSE "-",
                   pre |-> Snapshot(heap, env), post |-> Snapshot(r.st, env),
                   ret |-> Returned(r)]
       /\ UNCHANGED Statics

Assigned == {s \in Slots : env[s] # 0}

\* dst = new N(value, decimals, precision, { isPrecise })
New(Values, Decimals, Precisions, Options, Dsts) ==
  \E value \in Values, decimals \in Decimals, precision \in Precisions,
     isPrecise \in Options, dst \in Dsts :
    Finish("new", "-",
           [value |-> value, decimals |-> decimals, precision |-> precision,
            isPrecise |-> isPrecise],
           dst,
           constructor(heap, IF value = Omitted THEN Omitted ELSE Given(ArgValue(value[1])),
                       decimals, precision, isPrecise),
           TRUE, FALSE)

\* dst = recv.clone()
Clone ==
  \E recv \in Assigned, dst \in Slots :
    Finish("clone", recv, <<>>, dst, clone(heap, env[recv]), TRUE, FALSE)

Plus(Args) ==
  \E recv \in Assigned, arg \in Args, dst \in Slots :
    Finish("plus", recv, <<arg>>, dst, plus(heap, env[recv], ArgValue(arg)), TRUE, TRUE)

Minus(Args) ==
  \E recv \in Assigned, arg \in Args, dst \in Slots :
    Finish("minus", recv, <<arg>>, dst, minus(heap, env[recv], ArgValue(arg)), TRUE, TRUE)

Mul(Args) ==
  \E recv \in Assigned, arg \in Args, dst \in Slots :
    Finish("mul", recv, <<arg>>, dst, mul(heap, env[recv], ArgValue(arg)), TRUE, TRUE)

MultipliedBy(Args) ==
  \E recv \in Assigned, arg \in Args, dst \in Slots :
    Finish("multipliedBy", recv, <<arg>>, dst, multipliedBy(heap, env[recv], ArgValue(arg)),
           TRUE, TRUE)

Div(Args) ==
  \E recv \in Assigned, arg \in Args, dst \in Slots :
    Finish("div", recv, <<arg>>, dst, div(heap, env[recv], ArgValue(arg)), TRUE, TRUE)

Sq ==
  \E recv \in Assigned, dst \in Slots :
    Finish("sq", recv, <<>>, dst, sq(heap, env[recv]), TRUE, TRUE)

Sqrt ==
  \E recv \in Assigned, dst \in Slots :
    Finish("sqrt", recv, <<>>, dst, sqrt(heap, env[recv]), TRUE, TRUE)

Eq(Args) ==
  \E recv \in Assigned, arg \in Args :
    Finish("eq", recv, <<arg>>, "-", eq(heap, env[recv], ArgValue(arg)), FALSE, FALSE)

Lt(Args) ==
  \E recv \in Assigned, arg \in Args :
    Finish("lt", recv, <<arg>>, "-", lt(heap, env[recv], ArgValue(arg)), FALSE, FALSE)

Lte(Args) ==
  \E recv \in Assigned, arg \in Args :
    Finish("lte", recv, <<arg>>, "-", lte(heap, env[recv], ArgValue(arg)), FALSE, FALSE)

Gt(Args) ==
  \E recv \in Assigned, arg \in Args :
    Finish("gt", recv, <<arg>>, "-", gt(heap, env[recv], ArgValue(arg)), FALSE, FALSE)

Gte(Args) ==
  \E recv \in Assigned, arg \in Args :
    Finish("gte", recv, <<arg>>, "-", gte(heap, env[recv], ArgValue(arg)), FALSE, FALSE)

ValueOf ==
  \E recv \in Assigned :
    Finish("valueOf", recv, <<>>, "-", valueOf(heap, env[recv]), FALSE, FALSE)

ToPrecise ==
  \E recv \in Assigned :
    Finish("toPrecise", recv, <<>>, "-", toPrecise(heap, env[recv]), FALSE, FALSE)

ToDecimal(Precisions) ==
  \E recv \in Assigned, precision \in Precisions :
    Finish("toDecimal", recv, <<precision>>, "-", toDecimal(heap, env[recv], precision),
           FALSE, FALSE)

ToStr(Precisions) ==
  \E recv \in Assigned, precision \in Precisions :
    Finish("toString", recv, <<precision>>, "-", toString(heap, env[recv], precision),
           FALSE, FALSE)

\* this.value = v: `value` is a public, writable property.
setValue(st, this, v) == [st EXCEPT ![this].value = v]

\* recv.value = v
SetValue(Values) ==
  \E recv \in Assigned, v \in Values :
    /\ last = NoCall
    /\ heap' = setValue(heap, env[recv], v)
    /\ last' = [op |-> "setValue", recv |-> recv, args |-> <<v>>, dst |-> "-",
                pre |-> Snapshot(heap, env), post |-> Snapshot(heap', env),
                ret |-> [tag |-> "undefined"]]
    /\ UNCHANGED <<env, Statics>>

\* N.ROUNDING_MODE = mode
SetRoundingMode(Modes) ==
  \E mode \in Modes \ {ROUNDING_MODE} :
    /\ last = NoCall
    /\ ROUNDING_MODE' = mode
    /\ last' = [op |-> "setRoundingMode", recv |-> "-",
                args |-> [from |-> ROUNDING_MODE, to |-> mode], dst |-> "-",
                pre |-> Snapshot(heap, env), post |-> Snapshot(heap, env),
                ret |-> [tag |-> "undefined"]]
    /\ UNCHANGED <<heap, env, DEFAULT_PRECISION, ROUNDING_CUSTOM_FUNCTION>>

\* N.ROUNDING_CUSTOM_FUNCTION = f
SetCustomFunction(Functions) ==
  \E f \in Functions \ {ROUNDING_CUSTOM_FUNCTION} :
    /\ last = NoCall
    /\ ROUNDING_CUSTOM_FUNCTION' = f
    /\ last' = [op |-> "setCustomFunction", recv |-> "-",
                args |-> [from |-> ROUNDING_CUSTOM_FUNCTION, to |-> f], dst |-> "-",
                pre |-> Snapshot(heap, env), post |-> Snapshot(heap, env),
                ret |-> [tag |-> "undefined"]]
    /\ UNCHANGED <<heap, env, DEFAULT_PRECISION, ROUNDING_MODE>>

\* N.DEFAULT_PRECISION = precision
SetDefaultPrecision(Precisions) ==
  \E precision \in Precisions \ {DEFAULT_PRECISION} :
    /\ last = NoCall
    /\ DEFAULT_PRECISION' = precision
    /\ last' = [op |-> "setDefaultPrecision", recv |-> "-",
                args |-> [from |-> DEFAULT_PRECISION, to |-> precision], dst |-> "-",
                pre |-> Snapshot(heap, env), post |-> Snapshot(heap, env),
                ret |-> [tag |-> "undefined"]]
    /\ UNCHANGED <<heap, env, ROUNDING_MODE, ROUNDING_CUSTOM_FUNCTION>>

\* The statement ends: the record of its call is dropped before the next one.
\* `last` is the observer's record of one call, not a part of the program's state.
\* A call whose loop still runs has not ended.
Return ==
  /\ last # NoCall
  /\ last.ret.tag # "loop"
  /\ last' = NoCall
  /\ UNCHANGED <<heap, env, Statics>>

\* sqrt() statement by statement. While its loop runs, the record of the call
\* holds Radicand (its place in the heap) and the locals x, z and y.
Looping == last.op = "sqrt" /\ last.ret.tag = "loop"

\* z = (x / z + z) / 2n with z halved instead.
newtonStepHalving(x, z) == z \div 2

\* z = (x / z + z) / 2n
newtonStep(x, z) == (TruncDiv(x, z) + z) \div 2

\* dst = recv.sqrt(), up to the loop: the clone, x, the two early exits, and
\* the first z and y.
SqrtEnter ==
  \E recv \in Assigned, dst \in Slots :
    \E Radicand \in {clone(heap, env[recv])} :
      LET x == Radicand.st[Radicand.ret.ref].value * Radicand.st[Radicand.ret.ref].factor
      IN IF x < 2
         THEN Finish("sqrt", recv, <<>>, dst, sqrt(heap, env[recv]), TRUE, TRUE)
         ELSE /\ last = NoCall
              /\ heap' = Radicand.st
              /\ last' = [op |-> "sqrt", recv |-> recv, args |-> <<>>, dst |-> dst,
                          pre |-> Snapshot(heap, env), post |-> Snapshot(heap, env),
                          ret |-> [tag |-> "loop", Radicand |-> Radicand.ret.ref,
                                   x |-> x, z |-> x \div 2 + 1, y |-> x]]
              /\ UNCHANGED <<env, Statics>>

\* One pass of the loop body: while (z < y) { y = z; z = (x / z + z) / 2n }
SqrtIterate ==
  /\ Looping
  /\ last.ret.z < last.ret.y
  /\ last' = [last EXCEPT !.ret.y = last.ret.z,
                          !.ret.z = newtonStep(last.ret.x, last.ret.z)]
  /\ UNCHANGED <<heap, env, Statics>>

\* The loop ends: Radicand.value = y; return Radicand
SqrtExit ==
  /\ Looping
  /\ ~(last.ret.z < last.ret.y)
  /\ \E r \in {Outcome([heap EXCEPT ![last.ret.Radicand].value = last.ret.y],
                        RefV(last.ret.Radicand))} :
     \E c \in {Collected(r.st, IF Kept(r, TRUE, TRUE)
                               THEN [env EXCEPT ![last.dst] = r.ret.ref] ELSE env)} :
       /\ heap' = c.st
       /\ env' = c.env
       /\ last' = [last EXCEPT !.dst = IF Kept(r, TRUE, TRUE) THEN last.dst ELSE "-",
                               !.post = Snapshot(r.st, env),
                               !.ret = [tag |-> "N", obj |-> r.st[r.ret.ref], fresh |-> TRUE]]
       /\ UNCHANGED Statics

\* ---------------------------------------------------------- specifications

Magnitudes == (-MaxMag)..MaxMag

OptionalOf(S) == {Omitted} \cup {Given(v) : v \in S}

\* The decimal literal of magnitude m with d fractional digits, as a caller
\* writes it: "-0.1", "2.", "0.00"; `short` leaves out a zero integer part (".1").
DecimalLiteral(m, d, short) ==
  LET digits == PadStart(NatToString(Abs(m)), IF short THEN d ELSE d + 1, "0")
  IN (IF m < 0 THEN <<"-">> ELSE <<>>)
     \o SubSeq(digits, 1, Len(digits) - d) \o <<".">>
     \o SubSeq(digits, Len(digits) - d + 1, Len(digits))

\* The value arguments of the constructor: omitted, a number, a bigint, a digit
\* string, a decimal string, a string that is no number, or one of the
\* caller's instances (the copy constructor).
DecimalStrings ==
  {StringV(DecimalLiteral(m, d, short)) : m \in Magnitudes, d \in 0..MaxDec, short \in BOOLEAN}
BadStrings == {StringV(<<"-">>)}
PlainValues(Integers) ==
  {NumberV(m) : m \in Integers} \cup {BigIntV(m) : m \in Integers}
    \cup {StringV(BigIntToString(m)) : m \in Integers} \cup DecimalStrings \cup BadStrings
VarValues == {VarArg(s) : s \in {t \in Slots : env[t] # 0}}
CtorValues(Integers) == OptionalOf(PlainValues(Integers) \cup VarValues)

\* The magnitudes already scaled to a precision, as the isPrecise form takes them.
ScaledMagnitudes == {m * Pow10(k) : m \in Magnitudes, k \in 0..MaxPrec}

\* The instances of the caller's variables as operands.
VarArgs == {VarArg(s) : s \in Assigned}

Init ==
  /\ heap = <<>>
  /\ env = [s \in Slots |-> 0]
  /\ DEFAULT_PRECISION = MaxPrec
  /\ ROUNDING_MODE = "HALF_AWAY_FROM_ZERO"
  /\ ROUNDING_CUSTOM_FUNCTION = "zero"
  /\ last = NoCall

\* Spec: two variables, each initialised by one constructor call of any form,
\* and every method called on them with instances as operands; a variable is
\* reassigned by the methods' results.
Next ==
  \/ New(CtorValues(Magnitudes), OptionalOf((-1)..MaxDec), OptionalOf(0..MaxPrec), BOOLEAN,
         Slots \ Assigned)
  \/ Clone
  \/ Plus(VarArgs)
  \/ Minus(VarArgs)
  \/ Mul(VarArgs)
  \/ MultipliedBy(VarArgs)
  \/ Div(VarArgs)
  \/ Sq
  \/ Sqrt
  \/ Eq(VarArgs)
  \/ Lt(VarArgs)
  \/ Lte(VarArgs)
  \/ Gt(VarArgs)
  \/ Gte(VarArgs)
  \/ ValueOf
  \/ ToPrecise
  \/ ToDecimal(OptionalOf(0..MaxPrec))
  \/ ToStr(OptionalOf(0..MaxPrec))
  \/ SetValue(Magnitudes)
  \/ Return

Spec == Init /\ [][Next]_vars

\* SpecCtor: one construction, of every form, under every default precision.
InitCtor ==
  /\ heap = <<>>
  /\ env = [s \in Slots |-> 0]
  /\ DEFAULT_PRECISION \in 0..MaxPrec
  /\ ROUNDING_MODE = "HALF_AWAY_FROM_ZERO"
  /\ ROUNDING_CUSTOM_FUNCTION = "zero"
  /\ last = NoCall

NextCtor ==
  \/ New(CtorValues(ScaledMagnitudes), OptionalOf((-1)..MaxDec), OptionalOf(0..MaxPrec),
         BOOLEAN, {"x"} \ Assigned)
  \/ Return

SpecCtor == InitCtor /\ [][NextCtor]_vars

\* Stored values around the rounding boundaries: the quarters up to MaxMag at
\* every precision (0.25, 0.5, 0.75, 1, 1.25, ... and their negations).
Quarters == {TruncDiv(m * Pow10(k), 4) : m \in (-4 * MaxMag)..(4 * MaxMag), k \in 0..MaxPrec}

\* SpecRound: one instance, built from a bigint with or without isPrecise, and
\* its narrowings and strings under every rounding mode and custom function,
\* the settings changing at any time.
NextRound ==
  \/ New({Given(BigIntV(v)) : v \in Quarters}, OptionalOf(0..MaxDec), OptionalOf(0..MaxPrec),
         BOOLEAN, {"x"} \ Assigned)
  \/ SetRoundingMode(RoundingModes)
  \/ SetCustomFunction(CustomFunctions)
  \/ ValueOf
  \/ ToDecimal(OptionalOf(0..MaxPrec))
  \/ ToStr(OptionalOf((-1)..MaxPrec))
  \/ Return

SpecRound == Init /\ [][NextRound]_vars

\* Plain operands of a method: a number, a bigint, a digit string, a decimal
\* string and a string that is no number.
PlainOperands ==
  {NumberV(MaxMag), BigIntV(-MaxMag), StringV(BigIntToString(MaxMag)),
   StringV(DecimalLiteral(-1, MaxDec, TRUE))} \cup BadStrings

\* SpecDefault: one instance built under the default precision of the moment,
\* the default changing at any time.
NextDefault ==
  \/ New(OptionalOf({NumberV(m) : m \in Magnitudes}), OptionalOf(0..MaxDec),
         OptionalOf(0..MaxPrec), {FALSE}, {"x"} \ Assigned)
  \/ SetDefaultPrecision(0..MaxPrec)
  \/ Return

SpecDefault == Init /\ [][NextDefault]_vars

\* Decimal strings with up to MaxFraction digits after the point, one more
\* than the decimals the other forms take.
MaxFraction == MaxDec + 1
LongDecimalStrings ==
  {StringV(DecimalLiteral(m, d, short)) :
     m \in Magnitudes, d \in 0..MaxFraction, short \in BOOLEAN}

\* SpecString: one instance built by new N(s) from a decimal or digit string,
\* and its toString(), under every built-in rounding mode.
NextString ==
  \/ New({Given(s) : s \in LongDecimalStrings}
           \cup {Given(StringV(BigIntToString(m))) : m \in Magnitudes},
         {Omitted}, {Omitted}, {FALSE}, {"x"} \ Assigned)
  \/ SetRoundingMode(RoundingModes \ {"CUSTOM"})
  \/ ToStr({Omitted})
  \/ Return

SpecString == Init /\ [][NextString]_vars

\* The plain operands of the binary operators: numbers, bigints, digit strings,
\* decimal strings and a string that is no number.
OperandMagnitudes == {-1, 0, MaxMag}
PlainArgs ==
  {NumberV(m) : m \in OperandMagnitudes} \cup {BigIntV(m) : m \in OperandMagnitudes}
    \cup {StringV(BigIntToString(m)) : m \in OperandMagnitudes}
    \cup {StringV(DecimalLiteral(m, d, TRUE)) : m \in OperandMagnitudes, d \in 0..MaxFraction}
    \cup BadStrings

\* SpecOperand: one instance built with isPrecise, and the four binary
\* operators called on it and on their results with instances and plain
\* values as operands.
NextOperand ==
  \/ New({Given(BigIntV(m)) : m \in Magnitudes}, OptionalOf(0..MaxDec), OptionalOf(0..MaxPrec),
         {TRUE}, {"x"} \ Assigned)
  \/ Plus(VarArgs \cup PlainArgs)
  \/ Minus(VarArgs \cup PlainArgs)
  \/ Mul(VarArgs \cup PlainArgs)
  \/ Div(VarArgs \cup PlainArgs)
  \/ Return

SpecOperand == Init /\ [][NextOperand]_vars

\* SpecNewton: one instance built with isPrecise from a scaled magnitude, and
\* sqrt() run on it and on its results one statement at a time. SpecNewtonLive
\* adds that a call that has started goes on: the loop body and the statements
\* after the loop are run when they are due.
NextNewton ==
  \/ New({Given(BigIntV(v)) : v \in ScaledMagnitudes}, {Omitted}, OptionalOf(0..MaxPrec),
         {TRUE}, {"x"} \ Assigned)
  \/ SqrtEnter
  \/ SqrtIterate
  \/ SqrtExit
  \/ Return

SpecNewton == Init /\ [][NextNewton]_vars
SpecNewtonLive == SpecNewton /\ WF_vars(SqrtIterate) /\ WF_vars(SqrtExit)

\* SpecPair: two instances built with isPrecise, every method called on them
\* with instances as operands, under every rounding mode and a second
\* custom function, the settings changing at any time.
NextPair ==
  \/ New({Given(BigIntV(m)) : m \in Magnitudes}, {Omitted}, OptionalOf(0..MaxPrec),
         {TRUE}, Slots \ Assigned)
  \/ SetRoundingMode(RoundingModes)
  \/ SetCustomFunction({"one"})
  \/ Clone
  \/ Plus(VarArgs)
  \/ Minus(VarArgs)
  \/ Mul(VarArgs)
  \/ MultipliedBy(VarArgs)
  \/ Div(VarArgs)
  \/ Sq
  \/ Sqrt
  \/ Eq(VarArgs)
  \/ Lt(VarArgs)
  \/ Lte(VarArgs)
  \/ Gt(VarArgs)
  \/ Gte(VarArgs)
  \/ ValueOf
  \/ ToPrecise
  \/ ToDecimal(OptionalOf(0..MaxPrec))
  \/ ToStr(OptionalOf(0..MaxPrec))
  \/ Return

SpecPair == Init /\ [][NextPair]_vars

\* ------------------------------------------------------------------ claims

\* The receiver and the instance operand of the last call as they were before
\* it, and the instance it returned.
Receiver == last.pre[last.recv]
Operand == last.pre[last.args[1].slot]
Result == last.ret.obj
ReturnedInstance == last.ret.tag = "N"

\* The common precision of two operands and a value rebased to it.
CommonPrecision(a, b) == Max(a.precision, b.precision)
Rebased(o, P) == o.value * Pow10(P - o.precision)

\* o1.value / o1.factor = o2.value / o2.factor, both factors powers of ten
SameDecimal(o1, o2) ==
  LET F == Max(o1.factor, o2.factor)
  IN o1.value * (F \div o1.factor) = o2.value * (F \div o2.factor)

\* The instance a call on heap <<a, b>> (receiver 1, operand 2) returns.
ResultOf(r) == r.st[r.ret.ref]

\* C1: plus and minus are exact for operands of any precisions: the result's
\* value / factor is the sum (difference) of the operands' value / factor, and
\* a.plus(b).minus(b) has the decimal value of a.
C1_PlusMinusExact ==
  (last.op \in {"plus", "minus"} /\ ReturnedInstance) =>
    LET a == Receiver
        b == Operand
        F == Max(Max(a.factor, b.factor), Result.factor)
        A == a.value * (F \div a.factor)
        B == b.value * (F \div b.factor)
    IN /\ Result.value * (F \div Result.factor) = IF last.op = "plus" THEN A + B ELSE A - B
       /\ last.op = "plus" =>
            SameDecimal(ResultOf(minus(<<Result, b>>, 1, RefV(2))), a)

\* C1's case: a sum whose receiver has the lower precision, so that the clone
\* of the receiver was rebased, and no operand is zero.
C1_Witness ==
  /\ last.op = "plus" /\ ReturnedInstance
  /\ Receiver.precision < Operand.precision
  /\ Receiver.value # 0 /\ Operand.value # 0

\* C2: mul has value = trunc(A * B / F), F the factor of the common precision
\* and A, B the operand values rebased to it, for operands of any precisions.
C2_MulCommonFactor ==
  (last.op \in {"mul", "multipliedBy"} /\ ReturnedInstance) =>
    LET P == CommonPrecision(Receiver, Operand)
    IN Result.value = TruncDiv(Rebased(Receiver, P) * Rebased(Operand, P), Pow10(P))

\* C3: div by a non-zero operand has value = trunc(F * A / B), F the factor of
\* the common precision and A, B the operand values rebased to it.
C3_DivCommonFactor ==
  (last.op = "div" /\ Operand.value # 0) =>
    LET P == CommonPrecision(Receiver, Operand)
    IN /\ ReturnedInstance
       /\ Result.value = TruncDiv(Pow10(P) * Rebased(Receiver, P), Rebased(Operand, P))

\* The same decimal value as o at precision p (p >= o.precision).
AtPrecision(o, p) == [o EXCEPT !.value = Rebased(o, p), !.precision = p, !.factor = Pow10(p)]

\* a <op> b raises no error, and its exact result has no digits beyond the
\* common precision of a and b.
ExactAt(op, a, b) ==
  LET P == CommonPrecision(a, b)
  IN CASE op = "mul" -> TruncRem(Rebased(a, P) * Rebased(b, P), Pow10(P)) = 0
       [] op = "div" -> b.value # 0 /\ TruncRem(Pow10(P) * Rebased(a, P), Rebased(b, P)) = 0
       [] OTHER -> TRUE

Apply(op, a, b) ==
  CASE op = "plus" -> plus(<<a, b>>, 1, RefV(2))
    [] op = "minus" -> minus(<<a, b>>, 1, RefV(2))
    [] op = "mul" -> mul(<<a, b>>, 1, RefV(2))
    [] op = "div" -> div(<<a, b>>, 1, RefV(2))

\* a2 in place of a, as receiver and as operand, leaves the decimal value of
\* the result unchanged when the exact result is representable both times.
Replaceable(op, a, a2, b) ==
  /\ (ExactAt(op, a, b) /\ ExactAt(op, a2, b))
       => SameDecimal(ResultOf(Apply(op, a2, b)), ResultOf(Apply(op, a, b)))
  /\ (ExactAt(op, b, a) /\ ExactAt(op, b, a2))
       => SameDecimal(ResultOf(Apply(op, b, a2)), ResultOf(Apply(op, b, a)))

\* C4: results depend on the operands' decimal values only: plus and mul
\* commute under eq, and an operand replaced by the same decimal value at a
\* higher precision leaves the decimal value of plus, minus, mul and div
\* unchanged when the exact result is representable at both precisions.
C4_PrecisionIndependent ==
  (last.op \in {"plus", "minus", "mul", "div"} /\ ReturnedInstance) =>
    /\ last.op \in {"plus", "mul"} =>
         eq(<<Result, ResultOf(Apply(last.op, Operand, Receiver))>>, 1, RefV(2)).ret
           = BoolV(TRUE)
    /\ \A p \in Receiver.precision..MaxPrec :
         Replaceable(last.op, Receiver, AtPrecision(Receiver, p), Operand)

\* C5: no call writes to an instance the caller holds: after every method and
\* every constructor call, the receiver and the argument (every instance of the
\* caller) have the properties they had before the call.
C5_NoMutation ==
  (last.op \notin {"-", "setValue"}) => last.post = last.pre

\* C5's case: a binary operation whose operand has the lower precision, so that
\* rebase rewrote the value, precision and factor of the operand's copy.
C5_Witness ==
  /\ last.op \in {"plus", "minus", "mul", "div", "eq", "lt"}
  /\ last.args[1].tag = "var" /\ last.recv # last.args[1].slot
  /\ Operand.precision < Receiver.precision
  /\ Operand.value # 0

\* C6: every instance a constructor, clone or an arithmetic method returns, and
\* every instance the caller holds, has factor = 10^precision,
\* decimalsFactor = 10^decimals and precision >= decimals.
WellFormed(o) ==
  /\ o.factor = Pow10(o.precision)
  /\ o.decimalsFactor = Pow10(o.decimals)
  /\ o.precision >= o.decimals

C6_WellFormed ==
  /\ \A i \in 1..Len(heap) : WellFormed(heap[i])
  /\ ReturnedInstance => WellFormed(Result)

\* C6's case: an arithmetic result at a precision above its receiver's (rebase
\* raised precision and factor of the receiver's clone), with decimals > 0.
C6_Witness ==
  /\ last.op \in {"plus", "minus", "mul", "div"} /\ ReturnedInstance
  /\ Result.precision > Receiver.precision
  /\ Result.decimals > 0

\* The precision a constructor call asks for: the argument, or the default.
RequestedPrecision == OrDefault(last.args.precision, DEFAULT_PRECISION)

\* The value and decimals arguments of the last constructor call denote
\* magnitude m with d decimals: a number, bigint or digit string of m with
\* decimals d (0 when omitted), or a decimal literal of m with d digits after
\* the point (whatever the decimals argument).
Integral(m) ==
  \/ last.args.value = Omitted /\ m = 0
  \/ /\ last.args.value # Omitted
     /\ last.args.value[1] \in {NumberV(m), BigIntV(m), StringV(BigIntToString(m))}
PointLiteral(m, d) ==
  /\ last.args.value # Omitted
  /\ \E short \in BOOLEAN : last.args.value[1] = StringV(DecimalLiteral(m, d, short))
Denotes(m, d) ==
  \/ Integral(m) /\ d = OrDefault(last.args.decimals, 0)
  \/ PointLiteral(m, d)

\* C7: a constructed instance has precision = max(requested precision,
\* decimals), the requested precision being the argument or DEFAULT_PRECISION
\* and decimals the argument or the digits after the point; the non-precise
\* path stores value = magnitude * 10^(precision - decimals).
C7_PrecisionAndValue ==
  (last.op = "new" /\ ReturnedInstance) =>
    \A m \in ScaledMagnitudes, d \in 0..MaxDec :
      Denotes(m, d) =>
        /\ Result.decimals = d
        /\ Result.precision = Max(RequestedPrecision, d)
        /\ ~last.args.isPrecise => Result.value = m * Pow10(Result.precision - d)

\* C7's case: a decimal string with digits after the point and no precision
\* argument, under a default precision below its decimals.
C7_Witness ==
  /\ last.op = "new" /\ ReturnedInstance
  /\ \E m \in Magnitudes \ {0}, d \in 1..MaxDec : PointLiteral(m, d) /\ DEFAULT_PRECISION < d
  /\ last.args.precision = Omitted
  /\ ~last.args.isPrecise

\* The precision argument of the last constructor call denotes p.
PrecisionIs(p) == RequestedPrecision = p

\* The last constructor call is one of the five forms of (m, d, p).
FormOf(m, d, p) ==
  \/ /\ ~last.args.isPrecise
     /\ PrecisionIs(p)
     /\ \/ Integral(m) /\ last.args.value # Omitted /\ last.args.decimals = Given(d)
        \/ PointLiteral(m, d)
  \/ /\ last.args.isPrecise
     /\ last.args.value = Given(BigIntV(m * Pow10(p - d)))
     /\ last.args.decimals = Given(d)
     /\ last.args.precision = Given(p)

\* C8: for magnitude m, decimals d and precision p >= d, the instances built
\* from (number m, d), (bigint m, d), (digit string of m, d), the decimal
\* string of m with d digits after the point, and
\* (bigint m * 10^(p - d), d, p, isPrecise) are the same instance, property by
\* property; the isPrecise form stores the supplied integer unchanged.
C8_FormsAgree ==
  (last.op = "new" /\ ~(last.ret.tag = "throw" /\ last.ret.err = "SyntaxError")) =>
    \A m \in Magnitudes, d \in 0..MaxDec, p \in 0..MaxPrec :
      (p >= d /\ FormOf(m, d, p)) =>
        /\ ReturnedInstance
        /\ Result = [value |-> m * Pow10(p - d),
                     decimals |-> d, decimalsFactor |-> Pow10(d),
                     precision |-> p, factor |-> Pow10(p)]
        /\ last.args.isPrecise => Result.value = last.args.value[1].val

\* C8's case: the decimal-string form of a negative magnitude below one, at a
\* precision above its decimals.
C8_Witness ==
  /\ last.op = "new" /\ ReturnedInstance
  /\ \E d \in 1..MaxDec, p \in 0..MaxPrec : p > d /\ FormOf(-1, d, p) /\ PointLiteral(-1, d)

\* The last call made a copy: clone(), or the copy constructor new N(x).
IsCopy ==
  \/ last.op = "clone"
  \/ last.op = "new" /\ last.args.value # Omitted /\ last.args.value[1].tag = "var"
OriginalSlot == IF last.op = "clone" THEN last.recv ELSE last.args.value[1].slot
Original == last.pre[OriginalSlot]

\* The answer of a comparison of x with copy.
Answer(r) == r.ret

\* C9: clone() and new N(x) return a distinct instance with the five
\* properties of x, so eq, lte and gte of x with the copy are true and lt, gt
\* false; assigning a new value to the copy leaves x as it was.
C9_CopyDistinctAndEqual ==
  IsCopy =>
    /\ ReturnedInstance
    /\ last.ret.fresh
    /\ Result = Original
    /\ Answer(eq(<<Original, Result>>, 1, RefV(2))) = BoolV(TRUE)
    /\ Answer(lte(<<Original, Result>>, 1, RefV(2))) = BoolV(TRUE)
    /\ Answer(gte(<<Original, Result>>, 1, RefV(2))) = BoolV(TRUE)
    /\ Answer(lt(<<Original, Result>>, 1, RefV(2))) = BoolV(FALSE)
    /\ Answer(gt(<<Original, Result>>, 1, RefV(2))) = BoolV(FALSE)
    /\ last.dst \notin {"-", OriginalSlot} =>
         \A v \in Magnitudes :
           Snapshot(setValue(heap, env[last.dst], v), env)[OriginalSlot] = Original

\* C9's case: a clone of a non-zero instance held in another variable than
\* the original.
C9_Witness ==
  /\ last.op = "clone"
  /\ last.dst \notin {"-", last.recv}
  /\ Original.value # 0 /\ Original.precision > 0

\* The last call is a constructor call with a negative decimals argument.
NegativeDecimals ==
  /\ last.op = "new"
  /\ last.args.decimals # Omitted
  /\ last.args.decimals[1] < 0
  /\ ~(last.args.value # Omitted /\ last.args.value[1].tag = "var")

NothingConstructed == last.ret.tag = "throw" /\ heap = <<>> /\ \A s \in Slots : env[s] = 0

\* C10 as claimed: construction with decimals < 0 raises an error and produces
\* no instance, for every value kind (string, number, bigint), precise or not.
C10_NegativeDecimalsFail == NegativeDecimals => NothingConstructed

\* What a constructor call made: the instance, or the error.
Made(r) == IF r.ret.tag = "N" THEN r.st[r.ret.ref] ELSE r.ret

HasPoint == last.args.value # Omitted /\ last.args.value[1].tag = "string"
              /\ Includes(last.args.value[1].val, ".")

\* C10 amended: construction with decimals < 0 raises an error and produces no
\* instance for a number, a bigint and a string without '.', precise or not;
\* for a string with a '.', the decimals argument is ignored, and the call does
\* what the same call without a decimals argument does.
C10_NegativeDecimalsFailUnlessPoint ==
  NegativeDecimals =>
    IF HasPoint
    THEN Made(constructor(<<>>, Given(last.args.value[1]), Omitted,
                          last.args.precision, last.args.isPrecise))
           = IF ReturnedInstance THEN Result ELSE last.ret
    ELSE NothingConstructed

\* C10's case: a bigint with decimals -1 on the isPrecise path.
C10_Witness ==
  /\ NegativeDecimals
  /\ last.args.value # Omitted /\ last.args.value[1].tag = "bigint"
  /\ last.args.isPrecise
  /\ NothingConstructed

\* C11: sqrt() on an instance with a negative value raises an error at the
\* call, returns no instance and leaves the operand (every instance of the
\* caller) as it was; sqrt() on an instance with value >= 0 does not raise.
C11_SqrtNegativeFails ==
  last.op = "sqrt" =>
    IF Receiver.value < 0
    THEN /\ last.ret.tag = "throw"
         /\ last.dst = "-"
         /\ last.post = last.pre
         /\ Snapshot(heap, env) = last.pre
    ELSE ReturnedInstance

\* C11's case: sqrt() of a negative value at a precision above 0, with a
\* second instance in the caller's hands.
C11_Witness ==
  /\ last.op = "sqrt"
  /\ Receiver.value < 0 /\ Receiver.precision > 0
  /\ last.ret.tag = "throw"
  /\ \A s \in Slots : env[s] # 0

\* r is the integer floor square root of x.
IsFloorSqrt(r, x) == r >= 0 /\ r * r <= x /\ x < (r + 1) * (r + 1)

\* C12: for value >= 0, sqrt() returns an instance with the operand's
\* precision, factor and decimals whose value is the floor square root of
\* value * factor; a perfect square of a number representable at the
\* precision gives that root exactly.
C12_SqrtIsFloorRoot ==
  (last.op = "sqrt" /\ Receiver.value >= 0) =>
    /\ ReturnedInstance
    /\ Result.precision = Receiver.precision
    /\ Result.factor = Receiver.factor
    /\ Result.decimals = Receiver.decimals
    /\ Result.decimalsFactor = Receiver.decimalsFactor
    /\ IsFloorSqrt(Result.value, Receiver.value * Receiver.factor)
    /\ \A r \in 0..Receiver.value :
         r * r = Receiver.value * Receiver.factor => Result.value = r

\* C13 as claimed: for a non-negative operand with stored value 0 or 1, at any
\* precision, sqrt() returns an instance with the operand's value, precision,
\* factor and decimals.
C13_SqrtBelowTwoUnchanged ==
  (last.op = "sqrt" /\ Receiver.value \in {0, 1}) =>
    ReturnedInstance /\ Result = Receiver

\* C13 amended: sqrt() returns an instance with the operand's value, precision,
\* factor and decimals when value * factor < 2, that is for value 0 at any
\* precision and for value 1 at precision 0; for value 1 at a precision p > 0
\* the result's value is the floor square root of 10^p.
C13_SqrtScaledBelowTwoUnchanged ==
  (last.op = "sqrt" /\ Receiver.value \in {0, 1}) =>
    /\ ReturnedInstance
    /\ last.ret.fresh
    /\ Receiver.value * Receiver.factor < 2 => Result = Receiver
    /\ Receiver.value * Receiver.factor >= 2 =>
         /\ Result = [Receiver EXCEPT !.value = Result.value]
         /\ IsFloorSqrt(Result.value, Receiver.factor)
         /\ Result.value > Receiver.value

\* C13's case: sqrt() of stored value 1 at precision 0, where value * factor
\* is below 2.
C13_Witness ==
  /\ last.op = "sqrt" /\ ReturnedInstance
  /\ Receiver.value = 1 /\ Receiver.precision = 0
  /\ Result = Receiver

\* The last call narrowed its receiver to Digits fractional digits: valueOf()
\* (0 digits), or toDecimal(n) with n below the precision.
Digits ==
  IF last.op = "valueOf" THEN 0 ELSE OrDefault(last.args[1], Receiver.decimals)
IsNarrowing ==
  \/ last.op = "valueOf"
  \/ last.op = "toDecimal" /\ Digits < Receiver.precision
NarrowDivisor == Pow10(Receiver.precision - Digits)
Narrowed == last.ret.val

\* C14: under HALF_AWAY_FROM_ZERO every narrowing of v by d returns
\* trunc(v / d) + c, c = sign(v) if 2 * |v mod d| >= d and 0 otherwise; the
\* result is a nearest integer to v / d and an exact half goes to the larger
\* magnitude.
C14_HalfAwayFromZero ==
  (ROUNDING_MODE = "HALF_AWAY_FROM_ZERO" /\ IsNarrowing) =>
    LET v == Receiver.value
        d == NarrowDivisor
        q == Narrowed
    IN /\ q = TruncDiv(v, d) + (IF 2 * Abs(TruncRem(v, d)) >= d THEN Sign(v) ELSE 0)
       /\ 2 * Abs(q * d - v) <= d
       /\ 2 * Abs(TruncRem(v, d)) = d => Abs(q) = Abs(TruncDiv(v, d)) + 1

\* C14's case: toDecimal(n), n > 0, of a negative value that ends in an exact
\* half of the divisor.
C14_Witness ==
  /\ ROUNDING_MODE = "HALF_AWAY_FROM_ZERO"
  /\ last.op = "toDecimal" /\ IsNarrowing /\ Digits > 0
  /\ Receiver.value < 0
  /\ 2 * Abs(TruncRem(Receiver.value, NarrowDivisor)) = NarrowDivisor
  /\ Narrowed < 0

\* C15: under TOWARD_ZERO every narrowing returns the quotient truncated
\* toward zero with no carry: |q| * d <= |v| < (|q| + 1) * d, and q has the
\* sign of v or is 0.
C15_TowardZero ==
  (ROUNDING_MODE = "TOWARD_ZERO" /\ IsNarrowing) =>
    LET v == Receiver.value
        d == NarrowDivisor
        q == Narrowed
    IN /\ q = TruncDiv(v, d)
       /\ Abs(q) * d <= Abs(v)
       /\ Abs(v) < (Abs(q) + 1) * d
       /\ q = 0 \/ Sign(q) = Sign(v)

\* C15's case: a negative value with a non-zero quotient and more than half
\* of the divisor dropped.
C15_Witness ==
  /\ ROUNDING_MODE = "TOWARD_ZERO"
  /\ IsNarrowing
  /\ Receiver.value < 0
  /\ 2 * Abs(TruncRem(Receiver.value, NarrowDivisor)) > NarrowDivisor
  /\ Narrowed < 0

\* The receiver of the last call with the opposite value.
Negated == [Receiver EXCEPT !.value = -Receiver.value]

\* C16: in the HALF_AWAY_FROM_ZERO and TOWARD_ZERO modes, valueOf and
\* toDecimal(n) of the instance with value -v are the negation of valueOf and
\* toDecimal(n) of the instance with value v.
C16_RoundingSymmetric ==
  (ROUNDING_MODE \in {"HALF_AWAY_FROM_ZERO", "TOWARD_ZERO"}
     /\ last.op \in {"valueOf", "toDecimal"}) =>
    (IF last.op = "valueOf"
     THEN valueOf(<<Negated>>, 1).ret
     ELSE toDecimal(<<Negated>>, 1, last.args[1]).ret) = BigIntV(-Narrowed)

\* C16's case: valueOf() of a positive value ending in an exact half, under
\* HALF_AWAY_FROM_ZERO.
C16_Witness ==
  /\ ROUNDING_MODE = "HALF_AWAY_FROM_ZERO"
  /\ last.op = "valueOf"
  /\ Receiver.value > 0 /\ Receiver.precision > 0
  /\ 2 * TruncRem(Receiver.value, NarrowDivisor) = NarrowDivisor

\* C17 as claimed: under CUSTOM every narrowing hands the custom function the
\* dropped remainder (value mod divisor) and the divisor and adds the carry it
\* returns to the truncated quotient; a function that always returns 0 gives
\* the TOWARD_ZERO result.
C17_CustomOfRemainder ==
  (ROUNDING_MODE = "CUSTOM" /\ IsNarrowing) =>
    LET v == Receiver.value
        d == NarrowDivisor
    IN /\ Narrowed = TruncDiv(v, d)
                       + ApplyCustom(ROUNDING_CUSTOM_FUNCTION, TruncRem(v, d), d)
       /\ ROUNDING_CUSTOM_FUNCTION = "zero" => Narrowed = TruncDiv(v, d)

\* C17 amended: under CUSTOM every narrowing hands the custom function the
\* whole stored value and the divisor, the arguments the built-in modes take,
\* and adds the carry it returns to the truncated quotient; a function that
\* always returns 0 gives the TOWARD_ZERO result.
C17_CustomOfValue ==
  (ROUNDING_MODE = "CUSTOM" /\ IsNarrowing) =>
    LET v == Receiver.value
        d == NarrowDivisor
    IN /\ Narrowed = TruncDiv(v, d) + ApplyCustom(ROUNDING_CUSTOM_FUNCTION, v, d)
       /\ ROUNDING_CUSTOM_FUNCTION = "zero" => Narrowed = TruncDiv(v, d)

\* C17's case: a narrowing under CUSTOM where the function answers a carry
\* from the whole value that it would not answer from the remainder.
C17_Witness ==
  /\ ROUNDING_MODE = "CUSTOM" /\ IsNarrowing
  /\ ApplyCustom(ROUNDING_CUSTOM_FUNCTION, Receiver.value, NarrowDivisor) # 0
  /\ ApplyCustom(ROUNDING_CUSTOM_FUNCTION,
                 TruncRem(Receiver.value, NarrowDivisor), NarrowDivisor) = 0

\* The integer that narrowing v by divisor d gives under mode `mode` and
\* custom function f.
RoundedBy(mode, f, v, d) ==
  TruncDiv(v, d)
    + CASE mode = "DOWN" -> IF TruncRem(v, d) # 0 /\ v < 0 THEN -1 ELSE 0
        [] mode = "UP" -> IF TruncRem(v, d) # 0 /\ v > 0 THEN 1 ELSE 0
        [] mode = "TOWARD_ZERO" -> 0
        [] mode = "HALF_AWAY_FROM_ZERO" -> IF 2 * Abs(TruncRem(v, d)) >= d THEN Sign(v) ELSE 0
        [] mode = "CUSTOM" -> ApplyCustom(f, v, d)

\* Instance o expressed at n fractional digits under the given settings.
ExpressedBy(mode, f, o, n) ==
  IF n < o.precision
  THEN RoundedBy(mode, f, o.value, Pow10(o.precision - n))
  ELSE o.value * Pow10(n - o.precision)

\* An instance holding q at precision n, which toString(n) prints unrounded.
HeldAt(o, q, n) == [o EXCEPT !.value = q, !.precision = n, !.factor = Pow10(n)]

\* valueOf, toDecimal(n) and toString(n) of instance o in the current state
\* are those of the settings the state holds.
UsesCurrentSettings(o) ==
  LET M == ROUNDING_MODE
      F == ROUNDING_CUSTOM_FUNCTION
  IN /\ valueOf(<<o>>, 1).ret = BigIntV(RoundedBy(M, F, o.value, Pow10(o.precision)))
     /\ \A n \in 0..MaxPrec :
          /\ toDecimal(<<o>>, 1, Given(n)).ret = BigIntV(ExpressedBy(M, F, o, n))
          /\ toString(<<o>>, 1, Given(n)).ret
               = toString(<<HeldAt(o, ExpressedBy(M, F, o, n), n)>>, 1, Given(n)).ret

\* C18: the rounding mode and the custom function are read at each narrowing
\* call: once ROUNDING_MODE or ROUNDING_CUSTOM_FUNCTION is changed, valueOf,
\* toDecimal and toString of an instance built before the change use the new
\* setting, and the change alters no property of an existing instance.
C18_SettingsReadAtNarrowing ==
  /\ last.op \in {"setRoundingMode", "setCustomFunction"} =>
       /\ last.args.to = (IF last.op = "setRoundingMode" THEN ROUNDING_MODE
                          ELSE ROUNDING_CUSTOM_FUNCTION)
       /\ last.post = last.pre
       /\ Snapshot(heap, env) = last.pre
       /\ \A i \in 1..Len(heap) : UsesCurrentSettings(heap[i])
  /\ last.op \in {"valueOf", "toDecimal", "toString"} => UsesCurrentSettings(Receiver)
  /\ last.op = "valueOf" => last.ret = valueOf(<<Receiver>>, 1).ret
  /\ last.op = "toDecimal" => last.ret = toDecimal(<<Receiver>>, 1, last.args[1]).ret
  /\ last.op = "toString" => last.ret = toString(<<Receiver>>, 1, last.args[1]).ret

\* C18's case: the mode was just changed while an instance exists whose
\* valueOf() differs between the old mode and the new one.
C18_Witness ==
  /\ last.op = "setRoundingMode"
  /\ env["x"] # 0
  /\ LET o == heap[env["x"]]
     IN RoundedBy(last.args.from, ROUNDING_CUSTOM_FUNCTION, o.value, o.factor)
          # RoundedBy(last.args.to, ROUNDING_CUSTOM_FUNCTION, o.value, o.factor)

\* C20: valueOf() returns the integer toDecimal(0) returns, for every value,
\* every precision (precision 0 included) and every rounding mode, CUSTOM
\* with any custom function included.
C20_ValueOfIsToDecimalZero ==
  last.op = "valueOf" => last.ret = toDecimal(<<Receiver>>, 1, Given(0)).ret

\* What method op of instance `this` with operand arg makes on heap st.
MethodOn(op, st, this, arg) ==
  Made(CASE op = "plus" -> plus(st, this, arg)
         [] op = "minus" -> minus(st, this, arg)
         [] op = "mul" -> mul(st, this, arg)
         [] op = "div" -> div(st, this, arg)
         [] op = "eq" -> eq(st, this, arg)
         [] op = "lt" -> lt(st, this, arg)
         [] op = "lte" -> lte(st, this, arg)
         [] op = "gt" -> gt(st, this, arg)
         [] op = "gte" -> gte(st, this, arg))

\* What the argument-free methods and the conversions of `this` make.
ConversionsOn(st, this) ==
  <<Made(clone(st, this)), Made(sq(st, this)), Made(sqrt(st, this)),
    valueOf(st, this).ret, toPrecise(st, this).ret,
    [n \in OptionalOf(0..MaxPrec) |-> toDecimal(st, this, n).ret],
    [n \in OptionalOf(0..MaxPrec) |-> toString(st, this, n).ret]>>

\* An operand of a method on the instances in hand: one of them, or a plain one.
Operands == {RefV(i) : i \in 1..Len(heap)} \cup PlainOperands

\* C19: DEFAULT_PRECISION is used only by constructor calls that omit the
\* precision argument: a change of it leaves every existing instance as it
\* was, leaves the result of every arithmetic, comparison and conversion on
\* existing instances (plain operands included) and of every construction
\* with an explicit precision as it was, and makes a construction without a
\* precision argument use the new default.
C19_DefaultPrecisionOnlyAtConstruction ==
  [][DEFAULT_PRECISION' # DEFAULT_PRECISION =>
       /\ heap' = heap /\ env' = env
       /\ \A i \in 1..Len(heap) :
            /\ ConversionsOn(heap, i)' = ConversionsOn(heap, i)
            /\ \A arg \in Operands :
                 \A op \in {"plus", "minus", "mul", "div", "eq", "lt", "lte", "gt", "gte"} :
                   MethodOn(op, heap, i, arg)' = MethodOn(op, heap, i, arg)
       /\ \A m \in Magnitudes, d \in 0..MaxDec :
            /\ \A p \in 0..MaxPrec :
                 Made(constructor(heap, Given(NumberV(m)), Given(d), Given(p), FALSE))'
                   = Made(constructor(heap, Given(NumberV(m)), Given(d), Given(p), FALSE))
            /\ Made(constructor(heap, Given(NumberV(m)), Given(d), Omitted, FALSE))'
                 = [value |-> m * Pow10(Max(DEFAULT_PRECISION', d) - d),
                    decimals |-> d, decimalsFactor |-> Pow10(d),
                    precision |-> Max(DEFAULT_PRECISION', d),
                    factor |-> Pow10(Max(DEFAULT_PRECISION', d))]
    ]_vars

\* C19's case: the default was just changed away from the precision at which
\* the existing instance was built by default, to a higher one.
C19_Witness ==
  /\ last.op = "setDefaultPrecision"
  /\ env["x"] # 0
  /\ heap[env["x"]].precision = last.args.from
  /\ heap[env["x"]].precision < last.args.to
  /\ DEFAULT_PRECISION = last.args.to

\* C21: toDecimal(n) with n >= precision returns value * 10^(n - precision)
\* whatever the rounding mode, and with n < precision the value narrowed by
\* 10^(precision - n) under the active mode; toDecimal() uses n = decimals,
\* so an instance built from magnitude m and decimals d by the non-precise
\* path gives m under every built-in mode.
C21_ToDecimal ==
  /\ last.op = "toDecimal" =>
       /\ Digits >= Receiver.precision =>
            Narrowed = Receiver.value * Pow10(Digits - Receiver.precision)
       /\ Digits < Receiver.precision =>
            Narrowed = RoundedBy(ROUNDING_MODE, ROUNDING_CUSTOM_FUNCTION,
                                 Receiver.value, NarrowDivisor)
       /\ last.args[1] = Omitted =>
            last.ret = toDecimal(<<Receiver>>, 1, Given(Receiver.decimals)).ret
  /\ (last.op = "new" /\ ReturnedInstance /\ ~last.args.isPrecise
        /\ ROUNDING_MODE # "CUSTOM") =>
       \A m \in Quarters :
         Integral(m) => toDecimal(<<Result>>, 1, Omitted).ret = BigIntV(m)

\* C21's case: toDecimal(n) with n equal to the precision, under CUSTOM with a
\* function that always carries.
C21_Witness ==
  /\ last.op = "toDecimal"
  /\ Digits = Receiver.precision
  /\ ROUNDING_MODE = "CUSTOM" /\ ROUNDING_CUSTOM_FUNCTION = "one"
  /\ Receiver.value < 0
  /\ Narrowed = Receiver.value

\* The text of the last toString call, its sign and the text after the sign.
Text == last.ret.val
TextIsNegative == Len(Text) > 0 /\ Text[1] = "-"
Unsigned == IF TextIsNegative THEN SubSeq(Text, 2, Len(Text)) ELSE Text

RECURSIVE ReadDigits(_)
\* The number a sequence of decimal digits writes.
ReadDigits(s) ==
  IF Len(s) = 0 THEN 0
  ELSE 10 * ReadDigits(SubSeq(s, 1, Len(s) - 1)) + DigitVal(s[Len(s)])

\* text is digits, one '.', then exactly n digits.
IsFraction(text, n) ==
  /\ Len(text) >= n + 1
  /\ text[Len(text) - n] = "."
  /\ \A i \in 1..Len(text) : i # Len(text) - n => text[i] \in DigitChars

\* The digits of a fraction text without its point.
FractionDigits(text, n) ==
  SubSeq(text, 1, Len(text) - n - 1) \o SubSeq(text, Len(text) - n + 1, Len(text))

\* The integer the receiver of the last call has at n fractional digits.
AtDigits(n) == toDecimal(<<Receiver>>, 1, Given(n)).ret.val

\* C22: for every instance and every n > 0, toString(n) is an optional '-',
\* digits, one '.', and exactly n digits, and read as a decimal number it is
\* toDecimal(n) / 10^n; the sign never appears after the point.
C22_ToStringFraction ==
  (last.op = "toString" /\ Digits > 0) =>
    /\ IsFraction(Unsigned, Digits)
    /\ (IF TextIsNegative THEN -1 ELSE 1) * ReadDigits(FractionDigits(Unsigned, Digits))
         = AtDigits(Digits)

\* C23: for every instance and every n <= 0, toString(n) has no '.', and is
\* the digits of toDecimal(n) followed by -n zeros, so read as an integer it
\* is toDecimal(n) * 10^(-n); toString(0) is the string of valueOf().
C23_ToStringInteger ==
  (last.op = "toString" /\ Digits <= 0) =>
    /\ \A i \in 1..Len(Text) : Text[i] # "."
    /\ Text = BigIntToString(AtDigits(Digits)) \o [i \in 1..(-Digits) |-> "0"]
    /\ \A i \in 1..Len(Unsigned) : Unsigned[i] \in DigitChars
    /\ (IF TextIsNegative THEN -1 ELSE 1) * ReadDigits(Unsigned)
         = AtDigits(Digits) * Pow10(-Digits)
    /\ Digits = 0 => Text = BigIntToString(valueOf(<<Receiver>>, 1).ret.val)

\* q is the floor (the ceiling) of v / d, d > 0.
IsFloor(q, v, d) == q * d <= v /\ v < (q + 1) * d
IsCeiling(q, v, d) == (q - 1) * d < v /\ v <= q * d

\* C29: under DOWN every narrowing returns floor(value / divisor) and under UP
\* ceil(value / divisor), for positive, negative and exactly divisible values.
C29_DownIsFloorUpIsCeiling ==
  IsNarrowing =>
    /\ ROUNDING_MODE = "DOWN" => IsFloor(Narrowed, Receiver.value, NarrowDivisor)
    /\ ROUNDING_MODE = "UP" => IsCeiling(Narrowed, Receiver.value, NarrowDivisor)

\* C29's case: a negative inexact value narrowed by toDecimal under DOWN,
\* where the floor is below the truncated quotient.
C29_Witness ==
  /\ ROUNDING_MODE = "DOWN"
  /\ last.op = "toDecimal" /\ IsNarrowing
  /\ Receiver.value < 0
  /\ TruncRem(Receiver.value, NarrowDivisor) # 0
  /\ Narrowed = TruncDiv(Receiver.value, NarrowDivisor) - 1

\* A decimal text: an optional '-', then digits with at most one '.'.
Body(t) == IF Len(t) > 0 /\ t[1] = "-" THEN SubSeq(t, 2, Len(t)) ELSE t
Points(t) == {i \in 1..Len(t) : t[i] = "."}
IsDecimalText(t) ==
  /\ Cardinality(Points(Body(t))) <= 1
  /\ \A i \in 1..Len(Body(t)) : Body(t)[i] \in DigitChars \cup {"."}
  /\ \E i \in 1..Len(Body(t)) : Body(t)[i] \in DigitChars

\* The digits after the point of a decimal text, and the integer its digits
\* write, sign included.
FractionLength(t) ==
  IF Points(Body(t)) = {} THEN 0 ELSE Len(Body(t)) - (CHOOSE i \in Points(Body(t)) : TRUE)
Unscaled(t) ==
  (IF Len(t) > 0 /\ t[1] = "-" THEN -1 ELSE 1)
    * ReadDigits(SelectSeq(Body(t), LAMBDA c : c # "."))

\* Two decimal texts write the same number, whatever their leading and
\* trailing zeros.
SameNumber(t1, t2) ==
  /\ IsDecimalText(t1) /\ IsDecimalText(t2)
  /\ Unscaled(t1) * Pow10(FractionLength(t2)) = Unscaled(t2) * Pow10(FractionLength(t1))

\* The strings new N(s) builds the receiver of the last call from.
SourcesOfReceiver ==
  {s \in LongDecimalStrings \cup {StringV(BigIntToString(m)) : m \in Magnitudes} :
     Made(constructor(<<>>, Given(s), Omitted, Omitted, FALSE)) = Receiver}

\* C24: for a decimal string s (optional '-', digits, optionally one '.' and
\* digits), new N(s).toString() writes the number s writes, up to leading and
\* trailing zeros, for positive and negative s and |s| < 1, under every
\* built-in rounding mode.
C24_StringRoundTrip ==
  (last.op = "toString" /\ last.args[1] = Omitted /\ ROUNDING_MODE # "CUSTOM") =>
    \A s \in SourcesOfReceiver : SameNumber(Text, s.val)

\* The answer of comparison op of instance a with instance b.
Compared(op, a, b) == MethodOn(op, <<a, b>>, 1, RefV(2))

\* C25: the five comparisons of two instances of any precisions agree with the
\* exact order of the decimal values: a.lt(b) iff
\* a.value * b.factor < b.value * a.factor, and likewise eq, lte, gt, gte;
\* exactly one of lt, eq, gt is true, lte = lt or eq, gte = not lt, and
\* a.lt(b) iff b.gt(a); under every rounding mode.
C25_ComparisonsExact ==
  last.op \in {"eq", "lt", "lte", "gt", "gte"} =>
    LET a == Receiver
        b == Operand
        L == a.value * b.factor
        R == b.value * a.factor
        LT == Compared("lt", a, b) = BoolV(TRUE)
        EQ == Compared("eq", a, b) = BoolV(TRUE)
        GT == Compared("gt", a, b) = BoolV(TRUE)
    IN /\ last.ret = BoolV(CASE last.op = "eq" -> L = R
                             [] last.op = "lt" -> L < R
                             [] last.op = "lte" -> L <= R
                             [] last.op = "gt" -> L > R
                             [] last.op = "gte" -> L >= R)
       /\ last.ret = Compared(last.op, a, b)
       /\ Cardinality({c \in {"lt", "eq", "gt"} : Compared(c, a, b) = BoolV(TRUE)}) = 1
       /\ Compared("lte", a, b) = BoolV(LT \/ EQ)
       /\ Compared("gte", a, b) = BoolV(~LT)
       /\ LT <=> Compared("gt", b, a) = BoolV(TRUE)

\* C25's case: lt under a mode other than the default, the receiver at the
\* higher precision with the larger stored value and the smaller decimal value.
C25_Witness ==
  /\ last.op = "lt"
  /\ ROUNDING_MODE = "UP"
  /\ Receiver.precision > Operand.precision
  /\ Receiver.value > Operand.value /\ Operand.value > 0
  /\ last.ret = BoolV(TRUE)

\* The operations other than construction and sqrt, and a call of one of them
\* under a built-in rounding mode.
TotalOperations ==
  {"plus", "minus", "mul", "multipliedBy", "div", "sq", "eq", "lt", "lte", "gt", "gte",
   "clone", "valueOf", "toPrecise", "toDecimal", "toString"}
CalledBuiltIn == last.op \in TotalOperations /\ ROUNDING_MODE # "CUSTOM"
Threw == last.ret.tag = "throw"

\* C26 as stated: every operation other than construction and sqrt completes
\* with a result and raises no error for all instances reachable through the
\* public interface, under every built-in rounding mode.
C26_Total == CalledBuiltIn => ~Threw

\* C26 (amended): every operation other than construction and sqrt completes
\* with a result and raises no error for all instances reachable through the
\* public interface, under every built-in rounding mode, except div, which
\* raises a RangeError exactly when the divisor's value is 0.
C26_TotalButDivisionByZero ==
  CalledBuiltIn =>
    IF last.op = "div" /\ Operand.value = 0
    THEN last.ret = Throw("RangeError")
    ELSE ~Threw

\* C26's case: a division by an instance of value 0 at a higher precision than
\* the non-zero receiver's, under a built-in mode other than the default.
C26_Witness ==
  /\ CalledBuiltIn /\ last.op = "div"
  /\ ROUNDING_MODE = "DOWN"
  /\ Operand.value = 0 /\ Receiver.value # 0
  /\ Operand.precision > Receiver.precision
  /\ Threw

\* What the methods that take no operand and return an instance or the stored
\* value make of `this`.
ArithmeticOn(st, this) ==
  <<Made(clone(st, this)), Made(sq(st, this)), Made(sqrt(st, this)), toPrecise(st, this).ret>>

\* q is n / d truncated toward zero.
IsTruncation(q, n, d) == Abs(q * d) <= Abs(n) /\ Abs(n - q * d) < Abs(d)

\* C30: the rounding configuration has no influence on arithmetic: a change of
\* ROUNDING_MODE or of ROUNDING_CUSTOM_FUNCTION leaves every instance and the
\* result (value, precision, decimals) of plus, minus, mul, div, sq, sqrt, of
\* the comparisons, clone and toPrecise on every pair of instances as it was,
\* and the quotient mul and div store is the one truncated toward zero.
C30_RoundingNotInArithmetic ==
  /\ [][(ROUNDING_MODE' # ROUNDING_MODE \/ ROUNDING_CUSTOM_FUNCTION' # ROUNDING_CUSTOM_FUNCTION) =>
          /\ heap' = heap /\ env' = env
          /\ \A i \in 1..Len(heap) :
               /\ ArithmeticOn(heap, i)' = ArithmeticOn(heap, i)
               /\ \A j \in 1..Len(heap) :
                    \A op \in {"plus", "minus", "mul", "div", "eq", "lt", "lte", "gt", "gte"} :
                      MethodOn(op, heap, i, RefV(j))' = MethodOn(op, heap, i, RefV(j))
       ]_vars
  /\ [](LET a == Receiver
            b == Operand
            P == CommonPrecision(a, b)
        IN /\ (last.op \in {"mul", "multipliedBy"} /\ ReturnedInstance) =>
                IsTruncation(Result.value, Rebased(a, P) * Rebased(b, P), a.factor)
           /\ (last.op = "div" /\ ReturnedInstance) =>
                IsTruncation(Result.value, a.factor * Rebased(a, P), Rebased(b, P))
           /\ (last.op = "sq" /\ ReturnedInstance) =>
                IsTruncation(Result.value, Receiver.value * Receiver.value, Receiver.factor))

\* C30's case: the mode was just changed to UP with two instances in hand whose
\* product is negative and inexact.
C30_Witness ==
  /\ last.op = "setRoundingMode" /\ last.args.to = "UP" /\ ROUNDING_MODE = "UP"
  /\ env["x"] # 0 /\ env["y"] # 0
  /\ LET a == heap[env["x"]]
         b == heap[env["y"]]
     IN /\ a.precision = b.precision /\ a.value < 0
        /\ TruncRem(a.value * b.value, a.factor) # 0

\* The operand of the last binary call as the caller wrote it, and the instance
\* the operator makes of it when it is a plain value.
Arg == last.args[1]
IsPlain == Arg.tag # "var"
ArgInstance == IF IsPlain THEN Made(nfy(<<Receiver>>, 1, Arg)) ELSE Operand

\* The digits after the point of a plain operand (0 when it has no point).
ArgFraction ==
  IF Arg.tag = "string" /\ Includes(Arg.val, ".")
  THEN Len(Arg.val) - IndexOf(Arg.val, ".") - 1
  ELSE 0

\* The result of the last binary call has precision = max of the operands',
\* factor = 10^precision, and the receiver's decimals and decimalsFactor.
ResultShape ==
  /\ Result.precision = Max(Receiver.precision, ArgInstance.precision)
  /\ Result.factor = Pow10(Result.precision)
  /\ Result.decimals = Receiver.decimals
  /\ Result.decimalsFactor = Receiver.decimalsFactor

BinaryReturned == last.op \in {"plus", "minus", "mul", "div"} /\ ReturnedInstance

\* C27 as stated: the instance returned by plus, minus, mul and div has
\* precision = max(receiver.precision, operand.precision) and factor =
\* 10^precision, and the receiver's decimals and decimalsFactor; a plain
\* number, bigint or string operand is first turned into an instance at the
\* receiver's precision.
C27_ResultShape ==
  BinaryReturned =>
    /\ ResultShape
    /\ IsPlain => ArgInstance.precision = Receiver.precision

\* C27 (amended): as above, but a plain operand is turned into an instance
\* with decimals 0 at the receiver's precision or, for a string with more
\* digits after the point than that, at the number of these digits.
C27_ResultShapeOfRaisedOperand ==
  BinaryReturned =>
    /\ ResultShape
    /\ IsPlain => /\ ArgInstance.precision = Max(Receiver.precision, ArgFraction)
                  /\ ArgInstance.factor = Pow10(ArgInstance.precision)
                  /\ ArgInstance.decimals = ArgFraction
                  /\ Result.precision = Max(Receiver.precision, ArgFraction)

\* C27's case: a decimal string with more digits after the point than the
\* receiver's precision, added to a receiver with decimals of its own.
C27_Witness ==
  /\ BinaryReturned /\ last.op = "plus"
  /\ IsPlain /\ ArgFraction > Receiver.precision
  /\ Receiver.decimals > 0
  /\ Result.precision = ArgFraction

\* C28: the Newton loop of sqrt terminates for every x = value * factor >= 2:
\* it starts from z = x / 2 + 1 and y = x, each iteration strictly decreases y
\* and keeps y >= floor(sqrt(x)), so a call that entered the loop leaves it,
\* returning the clone of the receiver with y, the value sqrt() computes, as
\* its value.
C28_NewtonTerminates ==
  /\ [](Looping =>
          /\ last.ret.x >= 2
          /\ last.ret.x = Receiver.value * Receiver.factor
          /\ last.ret.x \div (last.ret.y + 1) < last.ret.y + 1
          /\ last.ret.y = last.ret.x => last.ret.z = last.ret.x \div 2 + 1
          /\ newton(last.ret.x, last.ret.z, last.ret.y)
               = ResultOf(sqrt(<<Receiver>>, 1)).value)
  /\ [][(Looping /\ Looping') => last'.ret.y < last.ret.y]_vars
  /\ [][(Looping /\ ~Looping') =>
          /\ ReturnedInstance'
          /\ Result' = [Receiver EXCEPT !.value = last.ret.y]]_vars
  /\ (Looping ~> ~Looping)

\* C28's case: the loop has run at least twice and is to run again, on an x
\* that is no perfect square.
C28_Witness ==
  /\ Looping
  /\ last.ret.z < last.ret.y
  /\ last.ret.y < last.ret.x \div 2 + 1
  /\ ~IsFloorSqrt(last.ret.z, last.ret.x)
  /\ LET r == newton(last.ret.x, last.ret.z, last.ret.y) IN r * r # last.ret.x

====
